---- MODULE Spec2Model ----
(***************************************************************************)
(* Model of find_duplicates.py: the two-pass duplicate finder              *)
(* (find_duplicates), the bounded-prefix checksum (calculate_checksum),    *)
(* the redundancy figure (calculate_extra_data) and the command-line       *)
(* program that rescans a root or replays a pickled snapshot.              *)
(*                                                                         *)
(* File contents are run-length encoded byte strings, so that reading the  *)
(* first 1000 bytes is computed, not assumed.  Python dicts are sequences  *)
(* of key/value entries in insertion order.  The progress bar (tqdm) and   *)
(* the first os.walk that only counts files for it carry no program state  *)
(* and are left out.                                                       *)
(***************************************************************************)
EXTENDS Integers, Sequences, FiniteSets, TLC

VARIABLES
  tree,         \* the directory tree as os.walk lists it: a sequence of files
  min_size_mb,  \* argument of find_duplicates
  pc,           \* position of find_duplicates / calculate_extra_data / idle
  idx,          \* index of the next listed file of the first pass
  files_data,   \* dict (size, name) -> paths
  gi,           \* index of the next entry of files_data in the second pass
  duplicates,   \* dict (checksum, size) -> paths
  reads,        \* history: the bytes each fingerprinted path yielded
  extra_data,   \* accumulator of calculate_extra_data
  pickles,      \* the pickle files on disk: file name -> snapshot or NoFile
  last,         \* history: the last run of the program (arguments and outcome)
  lastScan      \* history: root -> mapping its most recent rescan produced

vars == <<tree, min_size_mb, pc, idx, files_data, gi, duplicates, reads,
          extra_data, pickles, last, lastScan>>

----------------------------------------------------------------------------
(* Bounds *)

NumFiles == 4
MaxFaults == 1

(* Program constants *)

PrefixLen == 1000
MB == 1024 * 1024

----------------------------------------------------------------------------
(* Byte strings, run-length encoded: <<[b |-> byte, n |-> count], ...>>,   *)
(* adjacent runs of different bytes, so equal strings have equal codes.    *)

RECURSIVE ByteLen(_)
ByteLen(c) == IF c = <<>> THEN 0 ELSE Head(c).n + ByteLen(Tail(c))

RECURSIVE Take(_, _)
Take(c, n) ==
  IF n <= 0 \/ c = <<>> THEN <<>>
  ELSE IF Head(c).n <= n THEN <<Head(c)>> \o Take(Tail(c), n - Head(c).n)
  ELSE <<[b |-> Head(c).b, n |-> n]>>

Run(b, n) == [b |-> b, n |-> n]

Contents ==
  { <<Run("A", MB)>>,
    <<Run("A", PrefixLen), Run("B", MB - PrefixLen)>>,
    <<Run("A", PrefixLen - 1), Run("B", MB - PrefixLen + 1)>>,
    <<Run("A", MB - 1)>>,
    <<Run("A", PrefixLen - 1)>> }

Names == {"x", "y"}

(* What happens to a listed entry while the scan runs:                     *)
(*   none     it stays a readable regular file                             *)
(*   notfile  os.path.isfile is False (not regular, or gone before it)     *)
(*   sizeerr  isfile is True and os.path.getsize raises OSError            *)
(*   readerr  it is sized, and open/read raises in calculate_checksum      *)
Faults == {"none", "notfile", "sizeerr", "readerr"}

FileEntries == [name : Names, content : Contents, fault : Faults]

Entry(d, n, c, f) == [dir |-> d, name |-> n, content |-> c, fault |-> f]

----------------------------------------------------------------------------
(* Dicts in insertion order: sequences of [k |-> key, v |-> list].         *)

HasKey(d, k) == \E i \in 1..Len(d) : d[i].k = k

DictExtend(d, k, xs) ==
  IF HasKey(d, k)
  THEN [i \in 1..Len(d) |->
          IF d[i].k = k THEN [k |-> k, v |-> d[i].v \o xs] ELSE d[i]]
  ELSE Append(d, [k |-> k, v |-> xs])

DictAppend(d, k, x) == DictExtend(d, k, <<x>>)

Range(s) == {s[i] : i \in 1..Len(s)}

----------------------------------------------------------------------------
(* The file system as the scan sees it: a listing t is the sequence of     *)
(* entries os.walk yields, a path (os.path.join(dirpath, filename)) is     *)
(* <<directory, name>>.                                                    *)

PathOf(t, i) == <<t[i].dir, t[i].name>>

FileAt(t, p) == t[CHOOSE i \in 1..Len(t) : PathOf(t, i) = p]

isfile(t, p) == FileAt(t, p).fault # "notfile"

getsizeRaises(t, p) == FileAt(t, p).fault = "sizeerr"

getsize(t, p) == ByteLen(FileAt(t, p).content)

None == [ok |-> FALSE, hex |-> <<>>]

md5(data) == [ok |-> TRUE, hex |-> data]

readRaises(t, p) == FileAt(t, p).fault = "readerr"

(* Mutant: the read stops one byte short.                                  *)
ReadPrefixShort(t, p) == Take(FileAt(t, p).content, PrefixLen - 1)

ReadPrefix(t, p) == Take(FileAt(t, p).content, PrefixLen)

calculate_checksum(t, p) ==
  IF readRaises(t, p) THEN None ELSE md5(ReadPrefix(t, p))

----------------------------------------------------------------------------
(* find_duplicates, first pass: the body of the loop over listed files.    *)

(* Mutant: megabytes converted as if they were kilobytes.                  *)
min_size_kilobytes(mb) == mb * 1024

min_size_bytes(mb) == mb * MB

MeetsMinimum(file_size, mb) == file_size >= min_size_bytes(mb)

CollectFile(t, mb, fd, i) ==
  LET filepath == PathOf(t, i) IN
  IF isfile(t, filepath) /\ MeetsMinimum(getsize(t, filepath), mb)
  THEN DictAppend(fd, <<getsize(t, filepath), t[i].name>>, filepath)
  ELSE fd

(* Second pass: the body of the loop over files_data.items().              *)

(* Mutant: a failed read gives up the whole group.                         *)
RECURSIVE ChecksumsAbort(_, _)
ChecksumsAbort(t, paths) ==
  IF paths = <<>> THEN <<>>
  ELSE IF \E i \in 1..Len(paths) : readRaises(t, paths[i]) THEN <<>>
  ELSE LET rest == ChecksumsAbort(t, SubSeq(paths, 1, Len(paths) - 1))
           path == paths[Len(paths)]
       IN DictAppend(rest, calculate_checksum(t, path), path)

RECURSIVE Checksums(_, _)
Checksums(t, paths) ==
  IF paths = <<>> THEN <<>>
  ELSE LET rest == Checksums(t, SubSeq(paths, 1, Len(paths) - 1))
           path == paths[Len(paths)]
           checksum == calculate_checksum(t, path)
       IN IF checksum.ok THEN DictAppend(rest, checksum, path) ELSE rest

(* Mutant: a pair is not enough to be reported.                            *)
RECURSIVE AddDuplicatesOverTwo(_, _, _)
AddDuplicatesOverTwo(dups, cs, file_size) ==
  IF cs = <<>> THEN dups
  ELSE LET d == AddDuplicatesOverTwo(dups, SubSeq(cs, 1, Len(cs) - 1), file_size)
           e == cs[Len(cs)]
       IN IF Len(e.v) > 2 THEN DictExtend(d, <<e.k, file_size>>, e.v) ELSE d

RECURSIVE AddDuplicates(_, _, _)
AddDuplicates(dups, cs, file_size) ==
  IF cs = <<>> THEN dups
  ELSE LET d == AddDuplicates(dups, SubSeq(cs, 1, Len(cs) - 1), file_size)
           e == cs[Len(cs)]
       IN IF Len(e.v) > 1 THEN DictExtend(d, <<e.k, file_size>>, e.v) ELSE d

ConfirmGroup(t, dups, entry) ==
  IF Len(entry.v) > 1
  THEN AddDuplicates(dups, Checksums(t, entry.v), entry.k[1])
  ELSE dups

(* The whole function on a listing t, for the program's rescan and as the  *)
(* reference the error-handling properties compare with: Raised when       *)
(* getsize raises in the first pass, else the returned dict.               *)

Raised == [raised |-> TRUE, value |-> <<>>]

Returned(d) == [raised |-> FALSE, value |-> d]

RECURSIVE Collect(_, _, _)
Collect(t, mb, n) ==
  IF n = 0 THEN <<>> ELSE CollectFile(t, mb, Collect(t, mb, n - 1), n)

RECURSIVE Confirm(_, _, _)
Confirm(t, fd, n) ==
  IF n = 0 THEN <<>> ELSE ConfirmGroup(t, Confirm(t, fd, n - 1), fd[n])

SizeQueryRaises(t) ==
  \E i \in 1..Len(t) : isfile(t, PathOf(t, i)) /\ getsizeRaises(t, PathOf(t, i))

find_duplicates(t, mb) ==
  IF SizeQueryRaises(t) THEN Raised
  ELSE LET fd == Collect(t, mb, Len(t)) IN Returned(Confirm(t, fd, Len(fd)))

----------------------------------------------------------------------------
(* calculate_extra_data: the body of its loop, and the whole function.     *)

(* Mutant: every member counted, the kept copy too.                        *)
ExtraOfAll(entry) == entry.k[2] * Len(entry.v)

ExtraOf(entry) == entry.k[2] * (Len(entry.v) - 1)

RECURSIVE calculate_extra_data(_)
calculate_extra_data(d) ==
  IF d = <<>> THEN 0
  ELSE calculate_extra_data(SubSeq(d, 1, Len(d) - 1)) + ExtraOf(d[Len(d)])

----------------------------------------------------------------------------
(* Pickle files.  A file is [exists, data]; a loaded value is [none, value] *)
(* with none standing for Python's None.                                   *)

NoFile == [exists |-> FALSE, data |-> <<>>]

NoneValue == [none |-> TRUE, value |-> <<>>]

Some(d) == [none |-> FALSE, value |-> d]

save_to_pickle(pk, data, filename) ==
  [pk EXCEPT ![filename] = [exists |-> TRUE, data |-> data]]

(* Mutant: a missing file loads as an empty mapping.                       *)
load_or_empty(pk, filename) ==
  IF pk[filename].exists THEN Some(pk[filename].data) ELSE Some(<<>>)

load_from_pickle(pk, filename) ==
  IF pk[filename].exists THEN Some(pk[filename].data) ELSE NoneValue

(* Strings are sequences of characters.                                    *)

RECURSIVE lstrip(_, _)
lstrip(s, ch) ==
  IF s # <<>> /\ Head(s) = ch THEN lstrip(Tail(s), ch) ELSE s

RECURSIVE rstrip(_, _)
rstrip(s, ch) ==
  IF s # <<>> /\ s[Len(s)] = ch THEN rstrip(SubSeq(s, 1, Len(s) - 1), ch) ELSE s

strip(s, ch) == rstrip(lstrip(s, ch), ch)

replace(s, old, new) == [i \in 1..Len(s) |-> IF s[i] = old THEN new ELSE s[i]]

sanitized_path(root_directory) == replace(strip(root_directory, "/"), "/", "_")

pickle_file(root_directory) ==
  <<"duplicate_files_">> \o sanitized_path(root_directory) \o <<".pkl">>

(* The display at the end of the program: `if duplicates:` is true of a    *)
(* non-empty dict only.                                                    *)

Truthy(d) == ~d.none /\ d.value # <<>>

DisplayLines(d) ==
  IF Truthy(d)
  THEN <<"Duplicate files found:", "Total extra data stored as duplicates">>
  ELSE <<"No duplicate files found.">>

----------------------------------------------------------------------------
(* Specification Spec: one call of find_duplicates, step by step, on every *)
(* listing of at most NumFiles entries of which at most MaxFaults vanish   *)
(* or fail while it runs.                                                  *)

Idle == [root |-> <<>>, action |-> "none", exit |-> "none", out |-> <<>>,
         loaded |-> [none |-> TRUE, value |-> <<>>], stored |-> FALSE,
         shown |-> <<>>, extra |-> 0]

Thresholds == {0, 1}

FaultCount(t) == Cardinality({i \in 1..Len(t) : t[i].fault # "none"})

Listed(b) ==
  [i \in 1..Len(b) |-> Entry(i, b[i].name, b[i].content, b[i].fault)]

IsTree(t) ==
  \E n \in 0..NumFiles : \E b \in [1..n -> FileEntries] :
     FaultCount(b) <= MaxFaults /\ t = Listed(b)

Init ==
  /\ IsTree(tree)
  /\ min_size_mb \in Thresholds
  /\ pc = "walk"
  /\ idx = 1
  /\ files_data = <<>>
  /\ gi = 1
  /\ duplicates = <<>>
  /\ reads = {}
  /\ extra_data = 0
  /\ pickles = <<>>
  /\ last = Idle
  /\ lastScan = <<>>

WalkFile ==
  /\ pc = "walk"
  /\ idx <= Len(tree)
  /\ ~(isfile(tree, PathOf(tree, idx)) /\ getsizeRaises(tree, PathOf(tree, idx)))
  /\ files_data' = CollectFile(tree, min_size_mb, files_data, idx)
  /\ idx' = idx + 1
  /\ UNCHANGED <<tree, min_size_mb, pc, gi, duplicates, reads, extra_data,
                 pickles, last, lastScan>>

WalkRaise ==
  /\ pc = "walk"
  /\ idx <= Len(tree)
  /\ isfile(tree, PathOf(tree, idx))
  /\ getsizeRaises(tree, PathOf(tree, idx))
  /\ pc' = "raised"
  /\ UNCHANGED <<tree, min_size_mb, idx, files_data, gi, duplicates, reads,
                 extra_data, pickles, last, lastScan>>

WalkDone ==
  /\ pc = "walk"
  /\ idx > Len(tree)
  /\ pc' = "confirm"
  /\ UNCHANGED <<tree, min_size_mb, idx, files_data, gi, duplicates, reads,
                 extra_data, pickles, last, lastScan>>

ReadsOf(t, entry) ==
  IF Len(entry.v) > 1
  THEN {[path |-> p, data |-> ReadPrefix(t, p)] :
          p \in {q \in Range(entry.v) : ~readRaises(t, q)}}
  ELSE {}

ConfirmNext ==
  /\ pc = "confirm"
  /\ gi <= Len(files_data)
  /\ duplicates' = ConfirmGroup(tree, duplicates, files_data[gi])
  /\ reads' = reads \cup ReadsOf(tree, files_data[gi])
  /\ gi' = gi + 1
  /\ UNCHANGED <<tree, min_size_mb, pc, idx, files_data, extra_data, pickles,
                 last, lastScan>>

Return ==
  /\ pc = "confirm"
  /\ gi > Len(files_data)
  /\ pc' = "returned"
  /\ UNCHANGED <<tree, min_size_mb, idx, files_data, gi, duplicates, reads,
                 extra_data, pickles, last, lastScan>>

Next == WalkFile \/ WalkRaise \/ WalkDone \/ ConfirmNext \/ Return

Spec == Init /\ [][Next]_vars

----------------------------------------------------------------------------
(* Specification SpecExtra: calculate_extra_data, step by step, on every   *)
(* mapping of at most MaxSets entries of at most MaxPaths paths each.      *)

MaxSets == 3
MaxPaths == 3

ExtraSizes == {0, 1, PrefixLen, MB}

MappingOf(sz, cnt) ==
  [i \in 1..Len(sz) |->
     [k |-> <<md5(<<Run("A", i)>>), sz[i]>>,
      v |-> [j \in 1..cnt[i] |-> <<j, "x">>]]]

InitExtra ==
  /\ \E n \in 0..MaxSets :
       \E sz \in [1..n -> ExtraSizes], cnt \in [1..n -> 1..MaxPaths] :
          duplicates = MappingOf(sz, cnt)
  /\ pc = "extra"
  /\ gi = 1
  /\ extra_data = 0
  /\ tree = <<>>
  /\ min_size_mb = 0
  /\ idx = 1
  /\ files_data = <<>>
  /\ reads = {}
  /\ pickles = <<>>
  /\ last = Idle
  /\ lastScan = <<>>

ExtraNext ==
  /\ pc = "extra"
  /\ gi <= Len(duplicates)
  /\ extra_data' = extra_data + ExtraOf(duplicates[gi])
  /\ gi' = gi + 1
  /\ UNCHANGED <<tree, min_size_mb, pc, idx, files_data, duplicates, reads,
                 pickles, last, lastScan>>

ExtraReturn ==
  /\ pc = "extra"
  /\ gi > Len(duplicates)
  /\ pc' = "extra_done"
  /\ UNCHANGED <<tree, min_size_mb, idx, files_data, gi, duplicates, reads,
                 extra_data, pickles, last, lastScan>>

NextExtra == ExtraNext \/ ExtraReturn

SpecExtra == InitExtra /\ [][NextExtra]_vars

----------------------------------------------------------------------------
(* Specification SpecMain: runs of the program, one after another, over a  *)
(* file system with three directories, a regular file and a missing path.  *)
(* A run is one action: it ends before the next one starts.                *)

RootAB == <<"/", "a", "/", "b">>
RootABSlash == <<"/", "a", "/", "b", "/">>
RootA_B == <<"/", "a", "_", "b">>
RootC == <<"/", "c">>
RootFile == <<"/", "c", "/", "f">>
RootMissing == <<"/", "n", "x">>

Roots == {RootAB, RootABSlash, RootA_B, RootC, RootFile, RootMissing}

isdir(root) == rstrip(root, "/") \in {RootAB, RootA_B, RootC}

ContentA == <<Run("A", MB)>>
ContentAB == <<Run("A", PrefixLen), Run("B", MB - PrefixLen)>>
ContentSmall == <<Run("A", MB - 1)>>

(* What os.walk(root) may list when a run scans root: nothing, silently,   *)
(* for a root that is no directory (os.walk swallows the scandir error).   *)
Listings(root) ==
  IF ~isdir(root) THEN { <<>> }
  ELSE IF rstrip(root, "/") = RootAB
    THEN { <<Entry(1, "x", ContentA, "none"), Entry(2, "x", ContentA, "none")>>,
           <<Entry(1, "x", ContentA, "none"), Entry(2, "x", ContentA, "sizeerr")>> }
  ELSE IF rstrip(root, "/") = RootA_B
    THEN { <<Entry(3, "y", ContentAB, "none"), Entry(4, "y", ContentAB, "none")>> }
  ELSE { <<Entry(5, "x", ContentSmall, "none"), Entry(6, "x", ContentSmall, "none")>> }

PickleFiles == {pickle_file(r) : r \in Roots}

RootIds == {strip(r, "/") : r \in Roots}

InitMain ==
  /\ pickles = [f \in PickleFiles |-> NoFile]
  /\ last = Idle
  /\ lastScan = [r \in RootIds |-> NoneValue]
  /\ pc = "idle"
  /\ tree = <<>>
  /\ min_size_mb = 0
  /\ idx = 1
  /\ files_data = <<>>
  /\ gi = 1
  /\ duplicates = <<>>
  /\ reads = {}
  /\ extra_data = 0

RunOf(root, action, exit, out, loaded, stored, d) ==
  [root |-> root, action |-> action, exit |-> exit, out |-> out,
   loaded |-> loaded, stored |-> stored,
   shown |-> IF Truthy(d) THEN d.value ELSE <<>>,
   extra |-> IF Truthy(d) THEN calculate_extra_data(d.value) ELSE 0]

Rescan(root, mb) ==
  \E t \in Listings(root) :
    LET r == find_duplicates(t, mb) IN
    IF r.raised
    THEN /\ last' = RunOf(root, "rescan", "traceback", <<>>, NoneValue, FALSE,
                          NoneValue)
         /\ UNCHANGED <<pickles, lastScan>>
    ELSE /\ pickles' = save_to_pickle(pickles, r.value, pickle_file(root))
         /\ lastScan' = [lastScan EXCEPT ![strip(root, "/")] = Some(r.value)]
         /\ last' = RunOf(root, "rescan", "ok",
                          <<"Results saved">> \o DisplayLines(Some(r.value)),
                          NoneValue, TRUE, Some(r.value))

Replay(root) ==
  LET d == load_from_pickle(pickles, pickle_file(root)) IN
  /\ last' = RunOf(root, "load_from_pickle", "ok",
                   (IF d.none
                    THEN <<"No existing data found", "No saved data found">>
                    ELSE <<>>) \o DisplayLines(d),
                   d, pickles[pickle_file(root)].exists, d)
  /\ UNCHANGED <<pickles, lastScan>>

RunRescan ==
  /\ \E root \in Roots, mb \in Thresholds : Rescan(root, mb)
  /\ UNCHANGED <<tree, min_size_mb, pc, idx, files_data, gi, duplicates, reads,
                 extra_data>>

RunReplay ==
  /\ \E root \in Roots : Replay(root)
  /\ UNCHANGED <<tree, min_size_mb, pc, idx, files_data, gi, duplicates, reads,
                 extra_data>>

NextMain == RunRescan \/ RunReplay

SpecMain == InitMain /\ [][NextMain]_vars

----------------------------------------------------------------------------
(* Vocabulary of the properties.                                           *)

baseName(p) == p[2]

SizeOf(p) == ByteLen(FileAt(tree, p).content)

Min(a, b) == IF a <= b THEN a ELSE b

InSets(d, p) == \E e \in Range(d) : p \in Range(e.v)

InOneSet(d, p, q) == \E e \in Range(d) : p \in Range(e.v) /\ q \in Range(e.v)

WasRead(p) == \E r \in reads : r.path = p

Finished == pc \in {"returned", "raised"}

(* Two listed entries that are candidates for each other and agree on the  *)
(* first 1000 bytes.                                                       *)
Twins(i, j) ==
  /\ i # j
  /\ tree[i].name = tree[j].name
  /\ ByteLen(tree[i].content) = ByteLen(tree[j].content)
  /\ ByteLen(tree[i].content) >= 1048576 * min_size_mb
  /\ Take(tree[i].content, 1000) = Take(tree[j].content, 1000)

----------------------------------------------------------------------------
(* C1 (P1, candidate necessity): in the mapping find_duplicates returns,   *)
(* any two paths of one DuplicateSet have the same size and the same base  *)
(* name.                                                                   *)
C1_CandidateNecessity ==
  pc = "returned" =>
    \A e \in Range(duplicates) : \A p1, p2 \in Range(e.v) :
       SizeOf(p1) = SizeOf(p2) /\ baseName(p1) = baseName(p2)

(* C2 (P2, fingerprint agreement): for any two paths of one returned       *)
(* DuplicateSet, the bytes read from them during fingerprinting are the    *)
(* first min(1000, size) bytes of each file and are identical.             *)
C2_FingerprintAgreement ==
  pc = "returned" =>
    \A e \in Range(duplicates) : \A p1, p2 \in Range(e.v) :
       \E r1, r2 \in reads :
          /\ r1.path = p1 /\ r2.path = p2
          /\ r1.data = r2.data
          /\ ByteLen(r1.data) = Min(1000, SizeOf(p1))
          /\ r1.data = Take(FileAt(tree, p1).content, ByteLen(r1.data))

(* A returned DuplicateSet, and a readable file with the candidate key of  *)
(* its members that a different prefix kept out of it.                     *)
C2_Witness ==
  /\ pc = "returned"
  /\ \E e \in Range(duplicates) : \E p \in Range(e.v) :
       \E i \in 1..Len(tree) :
          /\ tree[i].fault = "none"
          /\ tree[i].name = baseName(p)
          /\ ByteLen(tree[i].content) = SizeOf(p)
          /\ Take(tree[i].content, 1000) # Take(FileAt(tree, p).content, 1000)
          /\ ~InSets(duplicates, PathOf(tree, i))

(* C3 (completeness of confirmation): two distinct regular files of equal  *)
(* size at or above the threshold, equal base name and equal first 1000    *)
(* bytes, both read successfully, are together in a DuplicateSet of the    *)
(* returned mapping; a finished call in which both were read has returned, *)
(* and a returned call has read every such pair that stayed readable.      *)
C3_Completeness ==
  \A i, j \in 1..Len(tree) :
     /\ (Finished /\ Twins(i, j) /\ WasRead(PathOf(tree, i))
           /\ WasRead(PathOf(tree, j)))
          => (pc = "returned"
                /\ InOneSet(duplicates, PathOf(tree, i), PathOf(tree, j)))
     /\ (pc = "returned" /\ Twins(i, j) /\ tree[i].fault = "none"
           /\ tree[j].fault = "none")
          => InOneSet(duplicates, PathOf(tree, i), PathOf(tree, j))

(* Two files that differ only after the first 1000 bytes, in one set.      *)
C3_Witness ==
  /\ pc = "returned"
  /\ \E i, j \in 1..Len(tree) :
       /\ Twins(i, j)
       /\ tree[i].content # tree[j].content
       /\ WasRead(PathOf(tree, i)) /\ WasRead(PathOf(tree, j))
       /\ InOneSet(duplicates, PathOf(tree, i), PathOf(tree, j))

(* C4 (P4, threshold enforcement): no file smaller than min_size_mb        *)
(* megabytes is in a CandidateGroup or a DuplicateSet, at any point of the *)
(* scan; once the first pass is over, a regular file whose size equals the *)
(* threshold is in its CandidateGroup.                                     *)
C4_ThresholdEnforcement ==
  /\ \A e \in Range(files_data) : \A p \in Range(e.v) :
        SizeOf(p) >= 1048576 * min_size_mb
  /\ \A e \in Range(duplicates) : \A p \in Range(e.v) :
        SizeOf(p) >= 1048576 * min_size_mb
  /\ pc \in {"confirm", "returned"} =>
        \A i \in 1..Len(tree) :
           (tree[i].fault \in {"none", "readerr"}
              /\ ByteLen(tree[i].content) = 1048576 * min_size_mb)
             => InSets(files_data, PathOf(tree, i))

(* A below-threshold file with a byte-identical copy, both left out, next  *)
(* to a file of exactly the threshold size that was taken in.              *)
C4_Witness ==
  /\ pc = "returned"
  /\ \E i, j, k \in 1..Len(tree) :
       /\ i # j
       /\ tree[i].name = tree[j].name
       /\ tree[i].content = tree[j].content
       /\ tree[i].fault = "none" /\ tree[j].fault = "none"
       /\ ByteLen(tree[i].content) < 1048576 * min_size_mb
       /\ ~InSets(files_data, PathOf(tree, i))
       /\ ~InSets(files_data, PathOf(tree, j))
       /\ ByteLen(tree[k].content) = 1048576 * min_size_mb
       /\ InSets(files_data, PathOf(tree, k))

(* The sum over the entries S of a mapping of (member count - 1) x size.   *)
RECURSIVE Redundant(_, _)
Redundant(d, S) ==
  IF S = {} THEN 0
  ELSE LET i == CHOOSE i \in S : TRUE
       IN (Len(d[i].v) - 1) * d[i].k[2] + Redundant(d, S \ {i})

(* C5 (P5, redundancy accounting): calculate_extra_data returns the sum    *)
(* over all sets of (member count - 1) x size, each entry it has passed    *)
(* having added exactly that; an empty mapping gives 0.                    *)
C5_RedundancyAccounting ==
  /\ pc = "extra" => extra_data = Redundant(duplicates, 1..(gi - 1))
  /\ pc = "extra_done" =>
        extra_data = Redundant(duplicates, 1..Len(duplicates))
  /\ (pc = "extra_done" /\ duplicates = <<>>) => extra_data = 0

(* A finished sum over several sets, one of them of three members.         *)
C5_Witness ==
  /\ pc = "extra_done"
  /\ Len(duplicates) >= 2
  /\ \E i \in 1..Len(duplicates) :
       Len(duplicates[i].v) = 3 /\ duplicates[i].k[2] > 0
  /\ extra_data > 0

(* C6 (fatal root failure): a rescan whose root does not exist or is not a *)
(* directory ends in a fatal error, not in a normal completion.            *)
C6_FatalRootFailure ==
  (last.action = "rescan" /\ ~isdir(last.root)) => last.exit # "ok"

(* The listing without the entries whose type or size cannot be had.       *)
StatOk(e) == e.fault \notin {"notfile", "sizeerr"}

(* C7 (StatError is local): when the type or size of a listed file cannot  *)
(* be determined, the scan still finishes by returning, and the candidate  *)
(* groups and the returned mapping are those of the tree without it.       *)
C7_StatErrorLocal ==
  Finished =>
    /\ pc = "returned"
    /\ files_data = Collect(SelectSeq(tree, StatOk), min_size_mb,
                            Len(SelectSeq(tree, StatOk)))
    /\ Returned(duplicates) = find_duplicates(SelectSeq(tree, StatOk), min_size_mb)

(* The candidate groups without the paths whose read fails.                *)
ReadOk(p) == ~readRaises(tree, p)

WithoutFailed(fd) ==
  [i \in 1..Len(fd) |-> [k |-> fd[i].k, v |-> SelectSeq(fd[i].v, ReadOk)]]

(* C8 (ReadError is local): the returned mapping is the one computed from  *)
(* the candidate groups with the failed paths removed; no failed path is   *)
(* in it, a group with fewer than 2 readable members contributes none of   *)
(* its paths, and no DuplicateSet has fewer than 2 members.                *)
C8_ReadErrorLocal ==
  pc = "returned" =>
    /\ duplicates = Confirm(tree, WithoutFailed(files_data), Len(files_data))
    /\ \A e \in Range(duplicates) :
          Len(e.v) >= 2 /\ \A p \in Range(e.v) : ReadOk(p)
    /\ \A g \in Range(files_data) :
          Len(SelectSeq(g.v, ReadOk)) < 2 =>
            \A p \in Range(g.v) : ~InSets(duplicates, p)

(* A group of three whose one read failed and whose two others were        *)
(* confirmed.                                                              *)
C8_Witness ==
  /\ pc = "returned"
  /\ \E g \in Range(files_data) :
       /\ Len(g.v) = 3
       /\ \E p, q, r \in Range(g.v) :
            /\ ~ReadOk(p)
            /\ q # r
            /\ InOneSet(duplicates, q, r)
            /\ ~InSets(duplicates, p)

(* C9 (PersistenceMissing): a replay never crashes; without a snapshot     *)
(* load_from_pickle yields None, which is not the empty mapping, and the   *)
(* program says that no saved data was found, which it never says for a    *)
(* stored snapshot, empty or not.                                          *)
C9_PersistenceMissing ==
  last.action = "load_from_pickle" =>
    /\ last.exit = "ok"
    /\ ~last.stored =>
          /\ last.loaded.none
          /\ last.loaded # Some(<<>>)
          /\ "No saved data found" \in Range(last.out)
    /\ last.stored =>
          /\ ~last.loaded.none
          /\ "No saved data found" \notin Range(last.out)

(* A replay that found no snapshot, while an empty snapshot is stored for  *)
(* another root.                                                           *)
C9_Witness ==
  /\ last.action = "load_from_pickle"
  /\ ~last.stored
  /\ \E f \in PickleFiles : pickles[f].exists /\ pickles[f].data = <<>>

(* C10 (snapshot isolation per root): a replay for root R yields the       *)
(* mapping of the most recent rescan of R, roots being told apart up to    *)
(* leading and trailing '/', or absence if R was never rescanned.          *)
C10_SnapshotIsolation ==
  last.action = "load_from_pickle" =>
    last.loaded = lastScan[strip(last.root, "/")]

====
